---- MODULE Spec2Model ----
(***************************************************************************)
(* Session/room orchestration of the WebRTC video platform:                *)
(*   WebRTCGateway      (webrtc.gateway.ts, stored as src/test-build.sh)   *)
(*   RoomService        (src/src/modules/webrtc/room.service.ts)           *)
(*   MediasoupService   (same file, lines 204-354)                         *)
(*   RecordingService   (src/src/modules/webrtc/recording.service.ts)      *)
(*   WebRTCClient       (src/unnamed/part_000)                             *)
(*   VideoCall          (src/unnamed/part_002)                             *)
(*                                                                         *)
(* One action is one run of a handler between two suspensions on the media *)
(* engine or the transcoder.  A handler that awaits the media engine is    *)
(* split at that await: the part before it, and the completion.  Promise   *)
(* continuations that follow each other without I/O (microtasks) run       *)
(* inside one action, since no socket event can come between them.         *)
(***************************************************************************)
EXTENDS Integers, Sequences, FiniteSets, TLC

\* ---------------------------------------------------------------- bounds
MaxConns == 2
MaxRooms == 2
MaxQueue == 3
MaxTransports == 2
MaxProducers == 2
MaxConsumers == 1
MaxRecordings == 2
MaxCreates == 3

Conns == 1..MaxConns
RoomNames == {"a", "b"}
Directions == {"send", "recv"}
Kinds == {"audio", "video"}
None == 0

VARIABLES
  sockets,          \* per connection: status, socket.data.roomId, socket.io rooms
  rooms,            \* RoomService.rooms: roomId -> RoomInfo
  routers,          \* MediasoupService.routers: ids of the rooms with an open router
  pendingJoin,      \* handleJoin suspended in createRoom (await createRouter)
  pendingTransport, \* handleCreateTransport suspended in createWebRtcTransport
  pendingProduce,   \* handleProduce suspended in transport.produce
  transports,       \* transports the media engine has created, by id
  producers,        \* producers the media engine has created, by id
  consumers,        \* consumers the media engine has created, by id
  recordings,       \* RecordingService.recordings, by id
  activeRecorders,  \* RecordingService.activeRecorders (ids)
  ffmpeg,           \* the transcoding processes, by recording id
  pendingRecording, \* startRecording suspended in createPlainTransport / ffmpeg start
  outbox,           \* per connection: messages emitted to it, not yet processed
  client,           \* per connection: WebRTCClient / VideoCall state
  joins,            \* per room id: number of successful joinRoom calls
  leaves            \* per room id: number of disconnects of connections joined to it

vars == <<sockets, rooms, routers, pendingJoin, pendingTransport, pendingProduce,
          transports, producers, consumers, recordings, activeRecorders, ffmpeg,
          pendingRecording, outbox, client, joins, leaves>>

serverMedia == <<pendingTransport, pendingProduce, transports, producers, consumers>>
serverRec == <<recordings, activeRecorders, ffmpeg, pendingRecording>>

\* ------------------------------------------------------------- messages
Msg(t, p, x, ps) == [type |-> t, peer |-> p, ref |-> x, peers |-> ps, text |-> ""]

\* error{message}
Err(text) == [type |-> "error", peer |-> None, ref |-> None, peers |-> {}, text |-> text]

\* socket.emit(...): a packet for a closed socket is discarded.
Emit(ob, c, m) ==
  IF sockets[c].status = "open" THEN [ob EXCEPT ![c] = Append(@, m)] ELSE ob

\* Members of the socket.io room r that can still receive.
RoomSockets(r) == {q \in Conns : sockets[q].status = "open" /\ r \in sockets[q].rooms}

\* socket.to(r).emit(...) / server.to(r).emit(...): every socket in targets.
EmitAll(ob, targets, m) ==
  [q \in Conns |-> IF q \in targets THEN Append(ob[q], m) ELSE ob[q]]

QueuesFit(ob) == \A q \in Conns : Len(ob[q]) <= MaxQueue

\* ------------------------------------------------------------ RoomService
NewPeer == [transports |-> {}, producers |-> {}, consumers |-> {}]

NewRoom(name) ==
  [name |-> name, peers |-> << >>, isRecording |-> FALSE, recordingId |-> None]

Min(S) == CHOOSE x \in S : \A y \in S : x <= y

\* The Map iterates in insertion order; room ids are numbered in the order of
\* rooms.set, so the first match is the least id.
getRoomByName(name) ==
  LET hits == {r \in DOMAIN rooms : rooms[r].name = name}
  IN IF hits = {} THEN None ELSE Min(hits)

getPeer(r, p) == r \in DOMAIN rooms /\ p \in DOMAIN rooms[r].peers

\* The list without the filter on the excluded id (RoomService.getRoomPeers).
getRoomPeersAll(rms, r, p) ==
  IF r \in DOMAIN rms THEN DOMAIN rms[r].peers ELSE {}

getRoomPeersExcept(rms, r, p) ==
  IF r \in DOMAIN rms THEN (DOMAIN rms[r].peers) \ {p} ELSE {}

\* room.peers.set(peerId, peer)
joinRoom(rms, r, p) ==
  [rms EXCEPT ![r].peers = [q \in (DOMAIN @) \cup {p} |-> IF q = p THEN NewPeer ELSE @[q]]]

Remove(f, k) == [x \in (DOMAIN f) \ {k} |-> f[x]]

MarkClosed(objs, ids) ==
  [i \in DOMAIN objs |-> IF i \in ids THEN [objs[i] EXCEPT !.closed = TRUE] ELSE objs[i]]

OfRoom(objs, r) == {i \in DOMAIN objs : objs[i].room = r}

\* leaveRoom's result: the peer exists -> its stored resources are closed,
\* it is deleted, and an empty room is closed (closeRoom: removeRouter, which
\* closes the router and with it whatever the engine still holds for the
\* room, then rooms.delete).
leaveRoomOk(r, p) == getPeer(r, p)

leaveRoomEmpties(r, p) == leaveRoomOk(r, p) /\ DOMAIN rooms[r].peers = {p}

leaveRoomRooms(r, p) ==
  IF ~leaveRoomOk(r, p) THEN rooms
  ELSE IF leaveRoomEmpties(r, p) THEN Remove(rooms, r)
  ELSE [rooms EXCEPT ![r].peers = Remove(@, p)]

leaveRoomRouters(r, p) == IF leaveRoomEmpties(r, p) THEN routers \ {r} ELSE routers

leaveRoomTransports(r, p) ==
  IF ~leaveRoomOk(r, p) THEN transports
  ELSE MarkClosed(transports,
         rooms[r].peers[p].transports
           \cup (IF leaveRoomEmpties(r, p) THEN OfRoom(transports, r) ELSE {}))

leaveRoomProducers(r, p) ==
  IF ~leaveRoomOk(r, p) THEN producers
  ELSE MarkClosed(producers,
         rooms[r].peers[p].producers
           \cup {i \in DOMAIN producers :
                   producers[i].transport \in rooms[r].peers[p].transports}
           \cup (IF leaveRoomEmpties(r, p) THEN OfRoom(producers, r) ELSE {}))

leaveRoomConsumers(r, p) ==
  IF ~leaveRoomOk(r, p) THEN consumers
  ELSE MarkClosed(consumers,
         rooms[r].peers[p].consumers
           \cup {i \in DOMAIN consumers :
                   consumers[i].transport \in rooms[r].peers[p].transports}
           \cup (IF leaveRoomEmpties(r, p) THEN OfRoom(consumers, r) ELSE {}))

\* --------------------------------------------------------------- Init
Init ==
  /\ sockets = [c \in Conns |-> [status |-> "new", roomId |-> None, rooms |-> {}]]
  /\ rooms = << >>
  /\ routers = {}
  /\ pendingJoin = {}
  /\ pendingTransport = {}
  /\ pendingProduce = {}
  /\ transports = << >>
  /\ producers = << >>
  /\ consumers = << >>
  /\ recordings = << >>
  /\ activeRecorders = {}
  /\ ffmpeg = << >>
  /\ pendingRecording = {}
  /\ outbox = [c \in Conns |-> << >>]
  /\ client = [c \in Conns |->
                 [peerId |-> None, localPeerId |-> None, closurePeerId |-> None,
                  participants |-> << >>, recentlyProcessedPeers |-> {},
                  participantsRef |-> << >>, remoteStreams |-> {},
                  consumeRequested |-> {},
                  sendTransport |-> None, recvTransport |-> None,
                  onceTransportCreated |-> << >>, createRequests |-> << >>,
                  transportsReturned |-> 0]]
  /\ joins = [r \in 1..MaxRooms |-> 0]
  /\ leaves = [r \in 1..MaxRooms |-> 0]

\* ---------------------------------------------------- RoomService.closeRoom
\* The stores closeRoom works on.  objects are the RoomInfo objects (a room
\* object outlives its entry in the rooms map), registered are the keys of
\* the rooms map, routerCloses counts the calls of router.close().
Store ==
  [objects |-> rooms, registered |-> DOMAIN rooms, routers |-> routers,
   transports |-> transports, producers |-> producers, consumers |-> consumers,
   routerCloses |-> 0, returned |-> FALSE]

\* removeRouter without the test of the routers map: router.close() and
\* routers.delete run whether or not the room still has a router.
removeRouterUnguarded(st, r) ==
  [st EXCEPT !.routers = @ \ {r},
             !.routerCloses = @ + 1,
             !.transports = MarkClosed(@, OfRoom(@, r)),
             !.producers = MarkClosed(@, OfRoom(@, r)),
             !.consumers = MarkClosed(@, OfRoom(@, r))]

\* MediasoupService.removeRouter: router.close(), which closes what the
\* engine holds for the room, and routers.delete, when the room has a router.
removeRouter(st, r) ==
  IF r \in st.routers
  THEN [st EXCEPT !.routers = @ \ {r},
                  !.routerCloses = @ + 1,
                  !.transports = MarkClosed(@, OfRoom(@, r)),
                  !.producers = MarkClosed(@, OfRoom(@, r)),
                  !.consumers = MarkClosed(@, OfRoom(@, r))]
  ELSE st

RECURSIVE closeRoom(_, _)
RECURSIVE leaveRoom(_, _, _)
RECURSIVE closePeers(_, _, _)

\* RoomService.leaveRoom(roomId, peerId): false for an unknown room or peer;
\* otherwise the peer's stored resources are closed, the peer is deleted, an
\* empty room is closed, and true is returned.
leaveRoom(st, r, p) ==
  IF r \notin st.registered THEN [st EXCEPT !.returned = FALSE]
  ELSE IF p \notin DOMAIN st.objects[r].peers THEN [st EXCEPT !.returned = FALSE]
  ELSE LET peer == st.objects[r].peers[p]
           s1 == [st EXCEPT
                    !.transports = MarkClosed(@, peer.transports),
                    !.producers = MarkClosed(@, peer.producers
                                     \cup {i \in DOMAIN @ : @[i].transport \in peer.transports}),
                    !.consumers = MarkClosed(@, peer.consumers
                                     \cup {i \in DOMAIN @ : @[i].transport \in peer.transports}),
                    !.objects[r].peers = Remove(@, p)]
           s2 == IF DOMAIN s1.objects[r].peers = {} THEN closeRoom(s1, r) ELSE s1
       IN [s2 EXCEPT !.returned = TRUE]

\* The loop of closeRoom over room.peers.values(): leaveRoom for every peer
\* the iterator yields (ps are the peers not visited yet; a peer deleted
\* meanwhile is not yielded).
closePeers(st, r, ps) ==
  LET left == ps \cap DOMAIN st.objects[r].peers
  IN IF left = {} THEN st
     ELSE closePeers(leaveRoom(st, r, Min(left)), r, left \ {Min(left)})

\* RoomService.closeRoom(roomId): false for an unknown room; otherwise
\* leaveRoom for every peer, removeRouter, rooms.delete, true.
closeRoom(st, r) ==
  IF r \notin st.registered THEN [st EXCEPT !.returned = FALSE]
  ELSE LET s1 == closePeers(st, r, DOMAIN st.objects[r].peers)
           s2 == removeRouter(s1, r)
       IN [s2 EXCEPT !.registered = @ \ {r}, !.returned = TRUE]

\* ------------------------------------------------------- WebRTCGateway
\* handleConnection: the socket gets its peer id (the connection number).
\* The client side is constructed with it: VideoCall's effect runs
\* initializeWebRTC once, after the first render, so the handlers it installs
\* close over that render's localPeerId (null).
handleConnection(c) ==
  /\ sockets[c].status = "new"
  /\ sockets' = [sockets EXCEPT ![c].status = "open"]
  /\ client' = [client EXCEPT ![c].closurePeerId = client[c].localPeerId]
  /\ UNCHANGED <<rooms, routers, pendingJoin, serverMedia, serverRec, outbox, joins, leaves>>

\* The tail of handleJoin with a joinRoom that lacks the peers.has test: the
\* peer is admitted again with a fresh session.
JoinTailNoCheck(c, r, rms) ==
  LET joined == joinRoom(rms, r, c)
      ob1 == Emit(outbox, c, Msg("joined", c, r, {}))
      ob2 == EmitAll(ob1, RoomSockets(r) \ {c}, Msg("peerJoined", c, None, {}))
      ob3 == Emit(ob2, c, Msg("existingPeers", None, None,
                              getRoomPeersExcept(joined, r, c)))
  IN /\ rooms' = joined
     /\ sockets' = [sockets EXCEPT ![c].roomId = r, ![c].rooms = @ \cup {r}]
     /\ outbox' = ob3
     /\ joins' = [joins EXCEPT ![r] = @ + 1]

\* The tail of handleJoin with the delta sent by server.to(room).emit, which
\* reaches the joining socket too.
JoinTailEcho(c, r, rms) ==
  IF c \in DOMAIN rms[r].peers
  THEN /\ rooms' = rms
       /\ outbox' = Emit(outbox, c, Err("Peer already in room"))
       /\ UNCHANGED <<sockets, joins>>
  ELSE LET joined == joinRoom(rms, r, c)
           ob1 == Emit(outbox, c, Msg("joined", c, r, {}))
           ob2 == EmitAll(ob1, {q \in RoomSockets(r) \cup {c} : sockets[q].status = "open"},
                          Msg("peerJoined", c, None, {}))
           ob3 == Emit(ob2, c, Msg("existingPeers", None, None,
                                   getRoomPeersExcept(joined, r, c)))
       IN /\ rooms' = joined
          /\ sockets' = [sockets EXCEPT ![c].roomId = r, ![c].rooms = @ \cup {r}]
          /\ outbox' = ob3
          /\ joins' = [joins EXCEPT ![r] = @ + 1]

\* The tail of handleJoin without the peerJoined delta to the room.
JoinTailQuiet(c, r, rms) ==
  IF c \in DOMAIN rms[r].peers
  THEN /\ rooms' = rms
       /\ outbox' = Emit(outbox, c, Err("Peer already in room"))
       /\ UNCHANGED <<sockets, joins>>
  ELSE LET joined == joinRoom(rms, r, c)
           ob1 == Emit(outbox, c, Msg("joined", c, r, {}))
           ob3 == Emit(ob1, c, Msg("existingPeers", None, None,
                                   getRoomPeersExcept(joined, r, c)))
       IN /\ rooms' = joined
          /\ sockets' = [sockets EXCEPT ![c].roomId = r, ![c].rooms = @ \cup {r}]
          /\ outbox' = ob3
          /\ joins' = [joins EXCEPT ![r] = @ + 1]

\* The tail of handleJoin, from joinRoom on (lines 102-132), for room r.
JoinTail(c, r, rms) ==
  IF c \in DOMAIN rms[r].peers
  THEN \* joinRoom throws 'already in room'
       /\ rooms' = rms
       /\ outbox' = Emit(outbox, c, Err("Peer already in room"))
       /\ UNCHANGED <<sockets, joins>>
  ELSE LET joined == joinRoom(rms, r, c)
           ob1 == Emit(outbox, c, Msg("joined", c, r, {}))
           ob2 == EmitAll(ob1, RoomSockets(r) \ {c}, Msg("peerJoined", c, None, {}))
           ob3 == Emit(ob2, c, Msg("existingPeers", None, None,
                                   getRoomPeersExcept(joined, r, c)))
       IN /\ rooms' = joined
          /\ sockets' = [sockets EXCEPT ![c].roomId = r, ![c].rooms = @ \cup {r}]
          /\ outbox' = ob3
          /\ joins' = [joins EXCEPT ![r] = @ + 1]

\* handleJoin when getRoomByName finds the room: no suspension on I/O.
handleJoinExisting(c, name) ==
  /\ sockets[c].status = "open"
  /\ getRoomByName(name) # None
  /\ JoinTail(c, getRoomByName(name), rooms)
  /\ QueuesFit(outbox')
  /\ UNCHANGED <<routers, pendingJoin, serverMedia, serverRec, client, leaves>>

\* handleJoin when the lookup finds no room: createRoom awaits createRouter.
handleJoinCreate(c, name) ==
  /\ sockets[c].status = "open"
  /\ getRoomByName(name) = None
  /\ [conn |-> c, name |-> name] \notin pendingJoin
  /\ pendingJoin' = pendingJoin \cup {[conn |-> c, name |-> name]}
  /\ UNCHANGED <<sockets, rooms, routers, serverMedia, serverRec, outbox, client, joins, leaves>>

\* Room ids are numbered in the order of rooms.set; every registered room is
\* joined in the same step, so the rooms registered so far are those joined.
NextRoomId == Cardinality({r \in 1..MaxRooms : joins[r] > 0}) + 1

\* createRouter resolves: routers.set, rooms.set, then the rest of handleJoin.
createRoomDone(j) ==
  /\ j \in pendingJoin
  /\ NextRoomId <= MaxRooms
  /\ LET r == NextRoomId
         rms == [x \in (DOMAIN rooms) \cup {r} |->
                   IF x = r THEN NewRoom(j.name) ELSE rooms[x]]
     IN /\ JoinTail(j.conn, r, rms)
        /\ routers' = routers \cup {r}
  /\ QueuesFit(outbox')
  /\ pendingJoin' = pendingJoin \ {j}
  /\ UNCHANGED <<serverMedia, serverRec, client, leaves>>

\* A createRoom that registers the room before it awaits the router, and
\* leaves it registered when createRouter rejects.
createRoomFailPartial(j) ==
  /\ j \in pendingJoin
  /\ NextRoomId <= MaxRooms
  /\ pendingJoin' = pendingJoin \ {j}
  /\ rooms' = [x \in (DOMAIN rooms) \cup {NextRoomId} |->
                 IF x = NextRoomId THEN NewRoom(j.name) ELSE rooms[x]]
  /\ outbox' = Emit(outbox, j.conn, Err("createRouter failed"))
  /\ QueuesFit(outbox')
  /\ UNCHANGED <<sockets, routers, serverMedia, serverRec, client, joins, leaves>>

\* createRouter rejects: createRoom rethrows, handleJoin emits error.
createRoomFail(j) ==
  /\ j \in pendingJoin
  /\ pendingJoin' = pendingJoin \ {j}
  /\ outbox' = Emit(outbox, j.conn, Err("createRouter failed"))
  /\ QueuesFit(outbox')
  /\ UNCHANGED <<sockets, rooms, routers, serverMedia, serverRec, client, joins, leaves>>

\* handleDisconnect (the socket has left its socket.io rooms by then).
handleDisconnect(c) ==
  /\ sockets[c].status = "open"
  /\ LET r == sockets[c].roomId
     IN /\ sockets' = [sockets EXCEPT ![c].status = "closed", ![c].rooms = {}]
        /\ IF r # None
           THEN /\ rooms' = leaveRoomRooms(r, c)
                /\ routers' = leaveRoomRouters(r, c)
                /\ transports' = leaveRoomTransports(r, c)
                /\ producers' = leaveRoomProducers(r, c)
                /\ consumers' = leaveRoomConsumers(r, c)
                /\ outbox' = [EmitAll(outbox, RoomSockets(r) \ {c},
                                      Msg("peerLeft", c, None, {}))
                                EXCEPT ![c] = << >>]
           ELSE /\ outbox' = [outbox EXCEPT ![c] = << >>]
                /\ UNCHANGED <<rooms, routers, transports, producers, consumers>>
  /\ QueuesFit(outbox')
  /\ leaves' = [r \in 1..MaxRooms |->
                  IF getPeer(r, c) THEN leaves[r] + 1 ELSE leaves[r]]
  /\ UNCHANGED <<pendingJoin, pendingTransport, pendingProduce, serverRec, client, joins>>

\* ------------------------------------------- WebRTCGateway: media handlers
\* A catch block that reports the failure to every open socket
\* (server.emit) instead of the requesting one.
FailsBroadcast(c, text) ==
  /\ outbox' = EmitAll(outbox, {q \in Conns : sockets[q].status = "open"}, Err(text))
  /\ QueuesFit(outbox')

\* A handler's catch block: error{message} to the requesting socket only.
Fails(c, text) ==
  /\ outbox' = Emit(outbox, c, Err(text))
  /\ QueuesFit(outbox')

\* A transport factory that does tag the transport with its direction
\* (appData: {direction}), which is what handleConsume's lookup expects.
createWebRtcTransportTagged(r, direction) ==
  [room |-> r, direction |-> direction, appDirection |-> direction, closed |-> FALSE]

\* MediasoupService.createWebRtcTransport: the direction selects the bitrate
\* option only; no appData is passed, so the transport's appData carries no
\* direction.
createWebRtcTransport(r, direction) ==
  [room |-> r, direction |-> direction, appDirection |-> "none", closed |-> FALSE]

\* handleCreateTransport up to the await; p is the payload's peerId.
handleCreateTransport(c, p, direction) ==
  /\ sockets[c].status = "open"
  /\ LET r == sockets[c].roomId
     IN IF r \notin DOMAIN rooms
        THEN Fails(c, "Room not found") /\ UNCHANGED pendingTransport
        ELSE IF ~getPeer(r, p)
        THEN Fails(c, "Peer not found") /\ UNCHANGED pendingTransport
        ELSE LET t == [conn |-> c, room |-> r, peer |-> p, direction |-> direction]
             IN /\ t \notin pendingTransport
                /\ Len(transports) + Cardinality(pendingTransport) < MaxTransports
                /\ pendingTransport' = pendingTransport \cup {t}
                /\ UNCHANGED outbox
  /\ UNCHANGED <<sockets, rooms, routers, pendingJoin, pendingProduce, transports,
                 producers, consumers, serverRec, client, joins, leaves>>

\* createWebRtcTransport resolves: peer.transports.set on the peer object the
\* handler holds (still in the room or not), then transportCreated.
createTransportDone(t) ==
  /\ t \in pendingTransport
  /\ t.room \in routers
  /\ pendingTransport' = pendingTransport \ {t}
  /\ transports' = Append(transports, createWebRtcTransport(t.room, t.direction))
  /\ rooms' = IF getPeer(t.room, t.peer)
              THEN [rooms EXCEPT ![t.room].peers[t.peer].transports =
                                   @ \cup {Len(transports) + 1}]
              ELSE rooms
  /\ outbox' = Emit(outbox, t.conn,
                    Msg("transportCreated", None, Len(transports) + 1, {}))
  /\ QueuesFit(outbox')
  /\ UNCHANGED <<sockets, routers, pendingJoin, pendingProduce, producers, consumers,
                 serverRec, client, joins, leaves>>

\* createWebRtcTransport rejects (always so on a closed router).
createTransportFail(t) ==
  /\ t \in pendingTransport
  /\ pendingTransport' = pendingTransport \ {t}
  /\ Fails(t.conn, "createWebRtcTransport failed")
  /\ UNCHANGED <<sockets, rooms, routers, pendingJoin, pendingProduce, transports,
                 producers, consumers, serverRec, client, joins, leaves>>

\* handleProduce up to the await; p is the payload's peerId.
handleProduce(c, p, tid, kind) ==
  /\ sockets[c].status = "open"
  /\ LET r == sockets[c].roomId
     IN IF ~getPeer(r, p)
        THEN Fails(c, "Peer not found") /\ UNCHANGED pendingProduce
        ELSE IF tid \notin rooms[r].peers[p].transports
        THEN Fails(c, "Transport not found") /\ UNCHANGED pendingProduce
        ELSE LET x == [conn |-> c, room |-> r, peer |-> p, transport |-> tid,
                       kind |-> kind]
             IN /\ x \notin pendingProduce
                /\ Len(producers) + Cardinality(pendingProduce) < MaxProducers
                /\ pendingProduce' = pendingProduce \cup {x}
                /\ UNCHANGED outbox
  /\ UNCHANGED <<sockets, rooms, routers, pendingJoin, pendingTransport, transports,
                 producers, consumers, serverRec, client, joins, leaves>>

\* transport.produce resolves: peer.producers.set, produced to the requester,
\* newProducer to the rest of the socket.io room.  A producer made on a
\* transport that was closed meanwhile is closed in the engine.
produceDone(x) ==
  /\ x \in pendingProduce
  /\ pendingProduce' = pendingProduce \ {x}
  /\ LET id == Len(producers) + 1
     IN /\ producers' = Append(producers,
                          [room |-> x.room, transport |-> x.transport, kind |-> x.kind,
                           closed |-> transports[x.transport].closed])
        /\ rooms' = IF getPeer(x.room, x.peer)
                    THEN [rooms EXCEPT ![x.room].peers[x.peer].producers = @ \cup {id}]
                    ELSE rooms
        /\ outbox' = EmitAll(Emit(outbox, x.conn, Msg("produced", None, id, {})),
                             RoomSockets(x.room) \ {x.conn},
                             Msg("newProducer", x.peer, id, {}))
  /\ QueuesFit(outbox')
  /\ UNCHANGED <<sockets, routers, pendingJoin, pendingTransport, transports, consumers,
                 serverRec, client, joins, leaves>>

\* transport.produce rejects.
produceFail(x) ==
  /\ x \in pendingProduce
  /\ pendingProduce' = pendingProduce \ {x}
  /\ Fails(x.conn, "produce failed")
  /\ UNCHANGED <<sockets, rooms, routers, pendingJoin, pendingTransport, transports,
                 producers, consumers, serverRec, client, joins, leaves>>

\* The consumed payload: consumerId, producerId, kind, rtpParameters, and no
\* peerId.  The peers field records whose producer it is.
consumed(id, kind, owner) ==
  [Msg("consumed", None, id, {owner}) EXCEPT !.text = kind]

\* The peers of room r whose producers map has producer id prod.
ProducerPeers(r, prod) == {q \in DOMAIN rooms[r].peers : prod \in rooms[r].peers[q].producers}

\* Array.from(peer.transports.values()).find(t => t.appData?.direction === 'recv')
RecvTransports(r, p) ==
  {t \in rooms[r].peers[p].transports : transports[t].appDirection = "recv"}

\* handleConsume; p is the payload's peerId, can the result of router.canConsume.
\* The handler suspends in recvTransport.consume only after every check passed;
\* the consumer is created paused.
handleConsume(c, p, prod, can) ==
  /\ sockets[c].status = "open"
  /\ LET r == sockets[c].roomId
     IN IF r \notin DOMAIN rooms \/ ~getPeer(r, p)
        THEN Fails(c, "Room or peer not found") /\ UNCHANGED <<rooms, consumers>>
        ELSE IF ProducerPeers(r, prod) = {}
        THEN Fails(c, "Producer not found") /\ UNCHANGED <<rooms, consumers>>
        ELSE IF ~can
        THEN Fails(c, "Cannot consume") /\ UNCHANGED <<rooms, consumers>>
        ELSE IF RecvTransports(r, p) = {}
        THEN Fails(c, "Receive transport not found") /\ UNCHANGED <<rooms, consumers>>
        ELSE LET id == Len(consumers) + 1
             IN /\ id <= MaxConsumers
                /\ consumers' = Append(consumers,
                     [room |-> r, transport |-> Min(RecvTransports(r, p)),
                      producer |-> prod, paused |-> TRUE, closed |-> FALSE])
                /\ rooms' = [rooms EXCEPT ![r].peers[p].consumers = @ \cup {id}]
                /\ outbox' = Emit(outbox, c, consumed(id, producers[prod].kind,
                                                      Min(ProducerPeers(r, prod))))
                /\ QueuesFit(outbox')
  /\ UNCHANGED <<sockets, routers, pendingJoin, pendingTransport, pendingProduce,
                 transports, producers, serverRec, client, joins, leaves>>

\* A resumeConsumer that skips the lookup in the requester's consumer map and
\* resumes whatever consumer the id names.
handleResumeConsumerAnyId(c, k) ==
  /\ sockets[c].status = "open"
  /\ consumers' = [x \in DOMAIN consumers |->
                     IF x = k THEN [consumers[x] EXCEPT !.paused = FALSE]
                     ELSE consumers[x]]
  /\ outbox' = Emit(outbox, c, Msg("consumerResumed", None, k, {}))
  /\ QueuesFit(outbox')
  /\ UNCHANGED <<sockets, rooms, routers, pendingJoin, pendingTransport, pendingProduce,
                 transports, producers, serverRec, client, joins, leaves>>

\* handleResumeConsumer: the session is that of socket.data.peerId, the
\* consumer is looked up in that session's own map.
handleResumeConsumer(c, k) ==
  /\ sockets[c].status = "open"
  /\ LET r == sockets[c].roomId
     IN IF ~getPeer(r, c)
        THEN Fails(c, "Peer not found") /\ UNCHANGED consumers
        ELSE IF k \notin rooms[r].peers[c].consumers
        THEN Fails(c, "Consumer not found") /\ UNCHANGED consumers
        ELSE /\ consumers' = [consumers EXCEPT ![k].paused = FALSE]
             /\ outbox' = Emit(outbox, c, Msg("consumerResumed", None, k, {}))
             /\ QueuesFit(outbox')
  /\ UNCHANGED <<sockets, rooms, routers, pendingJoin, pendingTransport, pendingProduce,
                 transports, producers, serverRec, client, joins, leaves>>

\* ------------------------------------------------------ RecordingService
\* RoomService.updateRoomRecordingStatus
updateRoomRecordingStatus(rms, r, isRecording, recordingId) ==
  IF r \in DOMAIN rms
  THEN [rms EXCEPT ![r].isRecording = isRecording, ![r].recordingId = recordingId]
  ELSE rms

\* RoomService.isRoomRecording
isRoomRecording(r) == r \in DOMAIN rooms /\ rooms[r].isRecording

\* handleStartRecording -> startRecording up to its first await
\* (createPlainTransport).
handleStartRecording(c) ==
  /\ sockets[c].status = "open"
  /\ LET r == sockets[c].roomId
     IN IF r \notin DOMAIN rooms
        THEN Fails(c, "Room not found") /\ UNCHANGED pendingRecording
        ELSE IF isRoomRecording(r)
        THEN Fails(c, "Room is already being recorded") /\ UNCHANGED pendingRecording
        ELSE LET x == [conn |-> c, room |-> r, stage |-> "transport"]
             IN /\ \A y \in pendingRecording : ~(y.conn = c /\ y.room = r)
                /\ Len(recordings) + Cardinality(pendingRecording) < MaxRecordings
                /\ pendingRecording' = pendingRecording \cup {x}
                /\ UNCHANGED outbox
  /\ UNCHANGED <<sockets, rooms, routers, pendingJoin, serverMedia, recordings,
                 activeRecorders, ffmpeg, client, joins, leaves>>

\* createPlainTransport resolves: startFFmpegRecording builds the command and
\* runs it; the process exists from here on.
plainTransportDone(x) ==
  /\ x \in pendingRecording
  /\ x.stage = "transport"
  /\ x.room \in routers
  /\ pendingRecording' = (pendingRecording \ {x}) \cup {[x EXCEPT !.stage = "ffmpeg"]}
  /\ UNCHANGED <<sockets, rooms, routers, pendingJoin, serverMedia, recordings,
                 activeRecorders, ffmpeg, outbox, client, joins, leaves>>

\* createPlainTransport rejects: the catch block marks the local recordingInfo
\* failed (it was never stored) and rethrows.
plainTransportFail(x) ==
  /\ x \in pendingRecording
  /\ x.stage = "transport"
  /\ pendingRecording' = pendingRecording \ {x}
  /\ Fails(x.conn, "createPlainTransport failed")
  /\ UNCHANGED <<sockets, rooms, routers, pendingJoin, serverMedia, recordings,
                 activeRecorders, ffmpeg, client, joins, leaves>>

\* The 'start' event with the notice sent by socket.emit, to the requester
\* alone, instead of server.to(roomId).emit.
ffmpegStartToRequester(x) ==
  /\ x \in pendingRecording
  /\ x.stage = "ffmpeg"
  /\ pendingRecording' = pendingRecording \ {x}
  /\ LET id == Len(recordings) + 1
     IN /\ activeRecorders' = activeRecorders \cup {id}
        /\ ffmpeg' = Append(ffmpeg, "running")
        /\ recordings' = Append(recordings,
                            [roomId |-> x.room, status |-> "recording", ended |-> FALSE])
        /\ rooms' = updateRoomRecordingStatus(rooms, x.room, TRUE, id)
        /\ outbox' = Emit(outbox, x.conn, Msg("recordingStarted", None, id, {}))
  /\ QueuesFit(outbox')
  /\ UNCHANGED <<sockets, routers, pendingJoin, serverMedia, client, joins, leaves>>

\* The command's 'start' event: activeRecorders.set, resolve; startRecording
\* stores the session, sets the room's flag and returns; the gateway emits
\* recordingStarted to the socket.io room.  Recording ids are numbered in the
\* order of recordings.set.
ffmpegStart(x) ==
  /\ x \in pendingRecording
  /\ x.stage = "ffmpeg"
  /\ pendingRecording' = pendingRecording \ {x}
  /\ LET id == Len(recordings) + 1
     IN /\ activeRecorders' = activeRecorders \cup {id}
        /\ ffmpeg' = Append(ffmpeg, "running")
        /\ recordings' = Append(recordings,
                            [roomId |-> x.room, status |-> "recording", ended |-> FALSE])
        /\ rooms' = updateRoomRecordingStatus(rooms, x.room, TRUE, id)
        /\ outbox' = EmitAll(outbox, RoomSockets(x.room),
                             Msg("recordingStarted", None, id, {}))
  /\ QueuesFit(outbox')
  /\ UNCHANGED <<sockets, routers, pendingJoin, serverMedia, client, joins, leaves>>

\* The command's 'error' event before 'start': reject; the catch block rethrows.
ffmpegStartError(x) ==
  /\ x \in pendingRecording
  /\ x.stage = "ffmpeg"
  /\ pendingRecording' = pendingRecording \ {x}
  /\ Fails(x.conn, "ffmpeg error")
  /\ UNCHANGED <<sockets, rooms, routers, pendingJoin, serverMedia, recordings,
                 activeRecorders, ffmpeg, client, joins, leaves>>

\* The command's 'error' event after 'start' (the process died, or was killed
\* and reports it): activeRecorders.delete; reject has no effect any more.
ffmpegError(id) ==
  /\ id \in DOMAIN ffmpeg
  /\ ffmpeg[id] \in {"running", "killed"}
  /\ ffmpeg' = [ffmpeg EXCEPT ![id] = "exited"]
  /\ activeRecorders' = activeRecorders \ {id}
  /\ UNCHANGED <<sockets, rooms, routers, pendingJoin, serverMedia, recordings,
                 pendingRecording, outbox, client, joins, leaves>>

\* The 'end' event without the test of the stored status: whatever the status
\* is, the recording becomes completed.
ffmpegEndAnyStatus(id) ==
  /\ id \in DOMAIN ffmpeg
  /\ ffmpeg[id] \in {"running", "killed"}
  /\ ffmpeg' = [ffmpeg EXCEPT ![id] = "exited"]
  /\ activeRecorders' = activeRecorders \ {id}
  /\ recordings' = [recordings EXCEPT ![id].status = "completed"]
  /\ UNCHANGED <<sockets, rooms, routers, pendingJoin, serverMedia, pendingRecording,
                 outbox, client, joins, leaves>>

\* The command's 'end' event: activeRecorders.delete; stopped -> completed.
ffmpegEnd(id) ==
  /\ id \in DOMAIN ffmpeg
  /\ ffmpeg[id] \in {"running", "killed"}
  /\ ffmpeg' = [ffmpeg EXCEPT ![id] = "exited"]
  /\ activeRecorders' = activeRecorders \ {id}
  /\ recordings' = IF recordings[id].status = "stopped"
                   THEN [recordings EXCEPT ![id].status = "completed"]
                   ELSE recordings
  /\ UNCHANGED <<sockets, rooms, routers, pendingJoin, serverMedia, pendingRecording,
                 outbox, client, joins, leaves>>

\* stopRecording without the test of the stored status (lines 90-92).
handleStopRecordingAnyStatus(c, id) ==
  /\ sockets[c].status = "open"
  /\ IF id \notin DOMAIN recordings
     THEN /\ Fails(c, "Recording not found")
          /\ UNCHANGED <<rooms, recordings, activeRecorders, ffmpeg>>
     ELSE /\ ffmpeg' = IF id \in activeRecorders
                       THEN [ffmpeg EXCEPT ![id] = "killed"] ELSE ffmpeg
          /\ activeRecorders' = activeRecorders \ {id}
          /\ recordings' = [recordings EXCEPT ![id].status = "stopped",
                                              ![id].ended = TRUE]
          /\ rooms' = updateRoomRecordingStatus(rooms, recordings[id].roomId, FALSE, None)
          /\ outbox' = EmitAll(outbox, RoomSockets(recordings[id].roomId),
                               Msg("recordingStopped", None, id, {}))
          /\ QueuesFit(outbox')
  /\ UNCHANGED <<sockets, routers, pendingJoin, serverMedia, pendingRecording, client,
                 joins, leaves>>

\* handleStopRecording -> stopRecording(recordingId)
handleStopRecording(c, id) ==
  /\ sockets[c].status = "open"
  /\ IF id \notin DOMAIN recordings
     THEN /\ Fails(c, "Recording not found")
          /\ UNCHANGED <<rooms, recordings, activeRecorders, ffmpeg>>
     ELSE IF recordings[id].status # "recording"
     THEN /\ Fails(c, "Recording is not active")
          /\ UNCHANGED <<rooms, recordings, activeRecorders, ffmpeg>>
     ELSE /\ ffmpeg' = IF id \in activeRecorders
                       THEN [ffmpeg EXCEPT ![id] = "killed"] ELSE ffmpeg
          /\ activeRecorders' = activeRecorders \ {id}
          /\ recordings' = [recordings EXCEPT ![id].status = "stopped",
                                              ![id].ended = TRUE]
          /\ rooms' = updateRoomRecordingStatus(rooms, recordings[id].roomId, FALSE, None)
          /\ outbox' = EmitAll(outbox, RoomSockets(recordings[id].roomId),
                               Msg("recordingStopped", None, id, {}))
          /\ QueuesFit(outbox')
  /\ UNCHANGED <<sockets, routers, pendingJoin, serverMedia, pendingRecording, client,
                 joins, leaves>>

\* The stores after recordings.delete and the value returned.
Deleted(id, rms, recs, act, ff, file) ==
  [returned |-> TRUE,
   rooms |-> rms,
   recordings |-> [i \in (DOMAIN recs) \ {id} |-> recs[i]],
   activeRecorders |-> act,
   ffmpeg |-> ff,
   fileExists |-> file]

\* A deleteRecording that leaves out the stop of an active recording.
deleteRecordingNoStop(id, fileExists, unlinkThrows) ==
  IF id \notin DOMAIN recordings
  THEN [returned |-> FALSE, rooms |-> rooms, recordings |-> recordings,
        activeRecorders |-> activeRecorders, ffmpeg |-> ffmpeg, fileExists |-> fileExists]
  ELSE Deleted(id, rooms, recordings, activeRecorders, ffmpeg,
               fileExists /\ unlinkThrows)

\* RecordingService.deleteRecording, as the stores it leaves behind.  The
\* call of stopRecording is not awaited, but stopRecording contains no await
\* and has run to its end when the call returns.  fileExists is the answer
\* of fs.existsSync, unlinkThrows says whether fs.unlinkSync throws (the
\* exception is caught and logged).
deleteRecording(id, fileExists, unlinkThrows) ==
  IF id \notin DOMAIN recordings
  THEN [returned |-> FALSE, rooms |-> rooms, recordings |-> recordings,
        activeRecorders |-> activeRecorders, ffmpeg |-> ffmpeg, fileExists |-> fileExists]
  ELSE IF recordings[id].status = "recording"
  THEN Deleted(id,
               updateRoomRecordingStatus(rooms, recordings[id].roomId, FALSE, None),
               [recordings EXCEPT ![id].status = "stopped", ![id].ended = TRUE],
               activeRecorders \ {id},
               IF id \in activeRecorders THEN [ffmpeg EXCEPT ![id] = "killed"] ELSE ffmpeg,
               fileExists /\ unlinkThrows)
  ELSE Deleted(id, rooms, recordings, activeRecorders, ffmpeg,
               fileExists /\ unlinkThrows)

\* RoomService.getRoomStats: null for an unknown room, else the room's figures
\* (here the room id and the ids of its peers).
getRoomStats(r) ==
  IF r \in DOMAIN rooms
  THEN Msg("roomStats", None, r, DOMAIN rooms[r].peers)
  ELSE Msg("roomStats", None, None, {})

\* handleGetRoomStats: the stats of socket.data.roomId, whatever they are.
handleGetRoomStats(c) ==
  /\ sockets[c].status = "open"
  /\ outbox' = Emit(outbox, c, getRoomStats(sockets[c].roomId))
  /\ QueuesFit(outbox')
  /\ UNCHANGED <<sockets, rooms, routers, pendingJoin, serverMedia, serverRec, client,
                 joins, leaves>>

\* RecordingService.getRoomRecordings (the ids of the stored sessions of r).
getRoomRecordings(r) == {id \in DOMAIN recordings : recordings[id].roomId = r}

\* handleGetRecordings: the stored recordings of socket.data.roomId.
handleGetRecordings(c) ==
  /\ sockets[c].status = "open"
  /\ outbox' = Emit(outbox, c, Msg("recordings", None, None,
                                   getRoomRecordings(sockets[c].roomId)))
  /\ QueuesFit(outbox')
  /\ UNCHANGED <<sockets, rooms, routers, pendingJoin, serverMedia, serverRec, client,
                 joins, leaves>>

\* ------------------------------------------------- WebRTCClient / VideoCall
\* setParticipantsWithLogging: the final filter on the closure's localPeerId.
setParticipantsWithLogging(c, next) ==
  SelectSeq(next, LAMBDA p : p # client[c].closurePeerId)

Has(s, p) == \E i \in 1..Len(s) : s[i] = p

\* client.onPeerJoined for one peer id, from client state cl.
onPeerJoined(c, cl, p) ==
  IF p \in cl.recentlyProcessedPeers THEN cl
  ELSE IF cl.closurePeerId = None THEN cl
  ELSE IF p = cl.closurePeerId THEN cl
  ELSE IF Has(cl.participants, p) THEN cl
  ELSE [cl EXCEPT !.recentlyProcessedPeers = @ \cup {p},
                  !.participants = setParticipantsWithLogging(c, Append(@, p)),
                  !.participantsRef = Append(cl.participants, p),
                  !.remoteStreams = {IF s.peerId = p THEN [s EXCEPT !.named = TRUE] ELSE s :
                                       s \in @}]

\* handleExistingPeers: onPeerJoined for each peer of the snapshot.
RECURSIVE handleExistingPeers(_, _, _)
handleExistingPeers(c, cl, ps) ==
  IF ps = {} THEN cl
  ELSE LET p == Min(ps)
       IN handleExistingPeers(c, onPeerJoined(c, cl, p), ps \ {p})

onPeerLeft(c, cl, p) ==
  [cl EXCEPT !.participants =
     setParticipantsWithLogging(c, SelectSeq(@, LAMBDA q : q # p)),
             !.participantsRef = SelectSeq(cl.participants, LAMBDA q : q # p),
             !.remoteStreams = {s \in @ : s.peerId # p}]

\* Array.from(new Map(peers.map(p => [p.id, p])).values()): one entry per
\* id, in the order of first occurrence.
Dedupe(s) ==
  LET F[i \in 0..Len(s)] ==
        IF i = 0 THEN << >>
        ELSE IF Has(F[i - 1], s[i]) THEN F[i - 1] ELSE Append(F[i - 1], s[i])
  IN F[Len(s)]

\* client.onParticipantList: the list replaces the participants.
onParticipantList(c, cl, peers) ==
  [cl EXCEPT !.participants = setParticipantsWithLogging(c, Dedupe(peers)),
             !.participantsRef = Dedupe(peers)]

\* handleConsumed's 'peerId || "unknown"': the key of a stream whose consumed
\* payload names no peer.
UnknownPeer == -1

\* client.onNewStream: remoteStreams is a Map keyed by `${peerId}-${kind}`; an
\* entry carries the participant's name when participantsRef knows the peer,
\* and the peer id as a temporary name otherwise.  from is the peer whose
\* producer feeds the stream's track.
onNewStream(c, cl, pid, kind, from) ==
  [cl EXCEPT !.remoteStreams =
     {s \in @ : ~(s.peerId = pid /\ s.kind = kind)}
       \cup {[peerId |-> pid, kind |-> kind, named |-> Has(cl.participantsRef, pid),
              from |-> from]}]

\* WebRTCClient.handleConsumed, once recvTransport.consume has resolved.
handleConsumed(c, cl, payloadPeer, kind, from) ==
  onNewStream(c, cl, IF payloadPeer = None THEN UnknownPeer ELSE payloadPeer, kind, from)

\* WebRTCClient.handleNewProducer -> consume: the client asks to consume the
\* announced producer; consumeRequested keeps the producer ids it asked for.
handleNewProducer(c, cl, prod) ==
  [cl EXCEPT !.consumeRequested = @ \cup {prod}]

\* The socket listener that runs for message m.
OnMessage(c, m) ==
  LET cl == client[c]
  IN CASE m.type = "joined" -> [cl EXCEPT !.peerId = m.peer, !.localPeerId = m.peer]
       [] m.type = "existingPeers" -> handleExistingPeers(c, cl, m.peers)
       [] m.type = "peerJoined" -> onPeerJoined(c, cl, m.peer)
       [] m.type = "peerLeft" -> onPeerLeft(c, cl, m.peer)
       [] m.type = "newProducer" -> handleNewProducer(c, cl, m.ref)
       [] m.type = "consumed" -> handleConsumed(c, cl, m.peer, m.text, Min(m.peers))
       [] OTHER -> cl

\* The connection delivers its oldest message to the client.
Deliver(c) ==
  /\ sockets[c].status = "open"
  /\ outbox[c] # << >>
  /\ client' = [client EXCEPT ![c] = OnMessage(c, Head(outbox[c]))]
  /\ outbox' = [outbox EXCEPT ![c] = Tail(@)]
  /\ UNCHANGED <<sockets, rooms, routers, pendingJoin, serverMedia, serverRec, joins, leaves>>

\* The one-second timer set by onPeerJoined fires.
recentlyProcessedExpire(c, p) ==
  /\ p \in client[c].recentlyProcessedPeers
  /\ client' = [client EXCEPT ![c].recentlyProcessedPeers = @ \ {p}]
  /\ UNCHANGED <<sockets, rooms, routers, pendingJoin, serverMedia, serverRec, outbox, joins, leaves>>

\* The client of connection c as an open component: its listeners run for a
\* message of any type and content, in any order.
ClientInputs ==
  {Msg("joined", c, 1, {}) : c \in Conns}
    \cup {Msg("existingPeers", None, None, ps) : ps \in SUBSET Conns}
    \cup {Msg("peerJoined", p, None, {}) : p \in Conns}
    \cup {Msg("peerLeft", p, None, {}) : p \in Conns}
    \cup {Msg("newProducer", p, prod, {}) : p \in Conns, prod \in 1..MaxProducers}

ParticipantLists == UNION {[1..n -> Conns] : n \in 0..MaxConns}

clientReceives(c, m) ==
  /\ sockets[c].status = "open"
  /\ m.type = "joined" => m.peer = c
  /\ client' = [client EXCEPT ![c] = OnMessage(c, m)]
  /\ UNCHANGED <<sockets, rooms, routers, pendingJoin, serverMedia, serverRec, outbox,
                 joins, leaves>>

\* A consumed payload, as the gateway builds it, for a producer of peer from.
receiveConsumed(c, from, kind) ==
  /\ sockets[c].status = "open"
  /\ from # c
  /\ client' = [client EXCEPT ![c] = OnMessage(c, consumed(1, kind, from))]
  /\ UNCHANGED <<sockets, rooms, routers, pendingJoin, serverMedia, serverRec, outbox,
                 joins, leaves>>

receiveParticipantList(c, peers) ==
  /\ sockets[c].status = "open"
  /\ client' = [client EXCEPT ![c] = onParticipantList(c, client[c], peers)]
  /\ UNCHANGED <<sockets, rooms, routers, pendingJoin, serverMedia, serverRec, outbox,
                 joins, leaves>>

\* ------------------------------------------ WebRTCClient: the transports
\* createSendTransport: returns when the send transport exists; otherwise
\* emits createTransport and registers a listener with
\* socket.once('transportCreated').  createRequests holds the requests that
\* have no answer yet.
createSendTransport(c) ==
  /\ sockets[c].status = "open"
  /\ client[c].sendTransport = None
  /\ Len(client[c].onceTransportCreated) + client[c].transportsReturned < MaxCreates
  /\ client' = [client EXCEPT ![c].createRequests = Append(@, "send"),
                              ![c].onceTransportCreated = Append(@, "send")]
  /\ UNCHANGED <<sockets, rooms, routers, pendingJoin, serverMedia, serverRec, outbox,
                 joins, leaves>>

\* createRecvTransport, called by consume: the same for the receive transport.
createRecvTransport(c) ==
  /\ sockets[c].status = "open"
  /\ client[c].recvTransport = None
  /\ Len(client[c].onceTransportCreated) + client[c].transportsReturned < MaxCreates
  /\ client' = [client EXCEPT ![c].createRequests = Append(@, "recv"),
                              ![c].onceTransportCreated = Append(@, "recv")]
  /\ UNCHANGED <<sockets, rooms, routers, pendingJoin, serverMedia, serverRec, outbox,
                 joins, leaves>>

\* The listeners ls registered with once run, in the order of registration,
\* for one transportCreated event carrying transport id: each builds its
\* transport from data.transportId.
RECURSIVE RunOnce(_, _, _)
RunOnce(cl, ls, id) ==
  IF ls = << >> THEN cl
  ELSE RunOnce(IF Head(ls) = "send"
               THEN [cl EXCEPT !.sendTransport = id]
               ELSE [cl EXCEPT !.recvTransport = id],
               Tail(ls), id)

\* The sequence s without its i-th element.
Without(s, i) == [k \in 1..(Len(s) - 1) |-> IF k < i THEN s[k] ELSE s[k + 1]]

\* The transport id the server returns to connection c for its next transport.
NextTransportId(c) == client[c].transportsReturned + 1

\* The server answers the i-th open request with transportCreated: the
\* emitter calls every listener of the event and once has removed them all.
receiveTransportCreated(c, i) ==
  /\ sockets[c].status = "open"
  /\ i \in DOMAIN client[c].createRequests
  /\ client' = [client EXCEPT ![c] =
                  [RunOnce(client[c], client[c].onceTransportCreated, NextTransportId(c))
                     EXCEPT !.onceTransportCreated = << >>,
                            !.createRequests = Without(client[c].createRequests, i),
                            !.transportsReturned = @ + 1]]
  /\ UNCHANGED <<sockets, rooms, routers, pendingJoin, serverMedia, serverRec, outbox,
                 joins, leaves>>

\* The server answers the i-th open request with error: no listener of
\* transportCreated runs or is removed.
receiveTransportError(c, i) ==
  /\ sockets[c].status = "open"
  /\ i \in DOMAIN client[c].createRequests
  /\ client' = [client EXCEPT ![c].createRequests = Without(client[c].createRequests, i)]
  /\ UNCHANGED <<sockets, rooms, routers, pendingJoin, serverMedia, serverRec, outbox,
                 joins, leaves>>

\* ------------------------------------------------------ specifications
NextRoom ==
  \/ \E c \in Conns : handleConnection(c)
  \/ \E c \in Conns, n \in RoomNames : handleJoinExisting(c, n)
  \/ \E c \in Conns, n \in RoomNames : handleJoinCreate(c, n)
  \/ \E j \in pendingJoin : createRoomDone(j)
  \/ \E j \in pendingJoin : createRoomFail(j)
  \/ \E c \in Conns : handleDisconnect(c)
  \/ \E c \in Conns : Deliver(c)

SpecRoom == Init /\ [][NextRoom]_vars

NextClient ==
  \/ \E c \in Conns : handleConnection(c)
  \/ \E c \in Conns, m \in ClientInputs : clientReceives(c, m)
  \/ \E c \in Conns, peers \in ParticipantLists : receiveParticipantList(c, peers)
  \/ \E c \in Conns, from \in Conns, kind \in Kinds : receiveConsumed(c, from, kind)

SpecClient == Init /\ [][NextClient]_vars

\* The client's transport creation as an open component: the calls of
\* createSendTransport and createRecvTransport and the server's answers, in
\* any order.
NextTransport ==
  \/ \E c \in Conns : handleConnection(c)
  \/ \E c \in Conns : createSendTransport(c)
  \/ \E c \in Conns : createRecvTransport(c)
  \/ \E c \in Conns, i \in 1..MaxCreates : receiveTransportCreated(c, i)
  \/ \E c \in Conns, i \in 1..MaxCreates : receiveTransportError(c, i)

SpecTransport == Init /\ [][NextTransport]_vars

PeerArgs == Conns \cup {None}
TransportIds == 1..MaxTransports
ProducerIds == 1..MaxProducers
ConsumerIds == 1..MaxConsumers

\* The server never reads a connection's outbox or the client's state, so
\* Deliver commutes with every server action: the specifications that are
\* about the server alone deliver each message before the next server action.
Drained == \A c \in Conns : outbox[c] = << >>

\* The media handlers never look at a room's name: one name is enough here
\* (two rooms still arise from two joins that race on it).
MediaRoomNames == {"a"}

\* The produce path hands the kind through without branching on it: one kind
\* is enough here (two producers of that kind still arise).
MediaKinds == {"video"}

NextMedia ==
  \/ \E c \in Conns : Deliver(c)
  \/ \E c \in Conns : Drained /\ handleConnection(c)
  \/ \E c \in Conns, n \in MediaRoomNames : Drained /\ handleJoinExisting(c, n)
  \/ \E c \in Conns, n \in MediaRoomNames : Drained /\ handleJoinCreate(c, n)
  \/ \E j \in pendingJoin : Drained /\ createRoomDone(j)
  \/ \E c \in Conns : Drained /\ handleDisconnect(c)
  \/ \E c \in Conns, p \in PeerArgs, d \in Directions :
        Drained /\ handleCreateTransport(c, p, d)
  \/ \E t \in pendingTransport : Drained /\ createTransportDone(t)
  \/ \E t \in pendingTransport : Drained /\ createTransportFail(t)
  \/ \E c \in Conns, p \in PeerArgs, t \in TransportIds, k \in MediaKinds :
        Drained /\ handleProduce(c, p, t, k)
  \/ \E x \in pendingProduce : Drained /\ produceDone(x)
  \/ \E x \in pendingProduce : Drained /\ produceFail(x)
  \/ \E c \in Conns, p \in PeerArgs, prod \in ProducerIds, can \in BOOLEAN :
        Drained /\ handleConsume(c, p, prod, can)
  \/ \E c \in Conns, k \in ConsumerIds : Drained /\ handleResumeConsumer(c, k)

SpecMedia == Init /\ [][NextMedia]_vars

\* The media handlers with the completion of transport.produce free to arrive
\* while earlier notices are still on their way to the clients.
NextLate ==
  \/ \E c \in Conns : Deliver(c)
  \/ \E c \in Conns : Drained /\ handleConnection(c)
  \/ \E c \in Conns, n \in MediaRoomNames : Drained /\ handleJoinExisting(c, n)
  \/ \E c \in Conns, n \in MediaRoomNames : Drained /\ handleJoinCreate(c, n)
  \/ \E j \in pendingJoin : Drained /\ createRoomDone(j)
  \/ \E c \in Conns : Drained /\ handleDisconnect(c)
  \/ \E c \in Conns, p \in PeerArgs, d \in Directions :
        Drained /\ handleCreateTransport(c, p, d)
  \/ \E t \in pendingTransport : Drained /\ createTransportDone(t)
  \/ \E c \in Conns, p \in PeerArgs, t \in TransportIds, k \in MediaKinds :
        Drained /\ handleProduce(c, p, t, k)
  \/ \E x \in pendingProduce : produceDone(x)

SpecLate == Init /\ [][NextLate]_vars

RecordingIds == 1..MaxRecordings

NextRec ==
  \/ \E c \in Conns : Deliver(c)
  \/ \E c \in Conns : Drained /\ handleConnection(c)
  \/ \E c \in Conns, n \in RoomNames : Drained /\ handleJoinExisting(c, n)
  \/ \E c \in Conns, n \in RoomNames : Drained /\ handleJoinCreate(c, n)
  \/ \E j \in pendingJoin : Drained /\ createRoomDone(j)
  \/ \E c \in Conns : Drained /\ handleDisconnect(c)
  \/ \E c \in Conns : Drained /\ handleStartRecording(c)
  \/ \E x \in pendingRecording : Drained /\ plainTransportDone(x)
  \/ \E x \in pendingRecording : Drained /\ plainTransportFail(x)
  \/ \E x \in pendingRecording : Drained /\ ffmpegStart(x)
  \/ \E x \in pendingRecording : Drained /\ ffmpegStartError(x)
  \/ \E id \in RecordingIds : Drained /\ ffmpegError(id)
  \/ \E id \in RecordingIds : Drained /\ ffmpegEnd(id)
  \/ \E c \in Conns, id \in RecordingIds : Drained /\ handleStopRecording(c, id)
  \/ \E j \in pendingJoin : Drained /\ createRoomFail(j)
  \/ \E c \in Conns : Drained /\ handleGetRoomStats(c)
  \/ \E c \in Conns : Drained /\ handleGetRecordings(c)

SpecRec == Init /\ [][NextRec]_vars

\* ------------------------------------------------------------ properties
PeerCount(r) == IF r \in DOMAIN rooms THEN Cardinality(DOMAIN rooms[r].peers) ELSE 0

\* C1: for every room, the peer count equals the number of successful joins
\* minus the number of disconnects of joined peers, and the room is
\* registered if and only if that count is greater than zero.
C1_PeerCountIsJoinsMinusLeaves ==
  \A r \in 1..MaxRooms :
    /\ PeerCount(r) = joins[r] - leaves[r]
    /\ (r \in DOMAIN rooms) <=> (joins[r] - leaves[r] > 0)

RecordingOf(r) ==
  {id \in DOMAIN recordings :
     recordings[id].roomId = r /\ recordings[id].status = "recording"}

RunningOf(r) ==
  {id \in DOMAIN ffmpeg : recordings[id].roomId = r /\ ffmpeg[id] = "running"}

\* C2: at every moment each room has at most one recording with status
\* "recording" and at most one running transcoding process, also when two
\* startRecording requests for the room are in flight together.
C2_OneRecordingPerRoom ==
  \A r \in 1..MaxRooms :
    Cardinality(RecordingOf(r)) <= 1 /\ Cardinality(RunningOf(r)) <= 1

\* C3: in any interleaving of joins that carry the same room name, at most
\* one live room has that name.
C3_OneRoomPerName ==
  \A r1 \in DOMAIN rooms, r2 \in DOMAIN rooms :
    rooms[r1].name = rooms[r2].name => r1 = r2

\* Producer prod is stored in the session of connection c's own peer.
OwnProducer(c, prod) ==
  /\ getPeer(sockets[c].roomId, c)
  /\ prod \in rooms[sockets[c].roomId].peers[c].producers

NoSelfConsumer ==
  \A r \in DOMAIN rooms : \A p \in DOMAIN rooms[r].peers :
    \A k \in rooms[r].peers[p].consumers :
      consumers[k].producer \notin rooms[r].peers[p].producers

LastIsError(c) ==
  /\ Len(outbox'[c]) = Len(outbox[c]) + 1
  /\ outbox'[c][Len(outbox'[c])].type = "error"

\* C4: a consume request that names a producer owned by the requesting peer
\* is answered with an error and creates no consumer, and in every state no
\* consumer's source producer belongs to the consumer's owner.
C4_SelfConsumeRejected ==
  [][/\ \A c \in Conns, p \in PeerArgs, prod \in ProducerIds, can \in BOOLEAN :
          (OwnProducer(c, prod) /\ handleConsume(c, p, prod, can)) =>
             /\ consumers' = consumers
             /\ rooms' = rooms
             /\ LastIsError(c)
     /\ NoSelfConsumer']_vars

\* C4's case: a connection alone in its room, holding a producer and a
\* transport it asked for with direction recv, has had its consume of that
\* producer answered with "Receive transport not found".
C4_Witness ==
  \E c \in Conns :
    /\ \A q \in Conns \ {c} : sockets[q].status = "new"
    /\ getPeer(sockets[c].roomId, c)
    /\ rooms[sockets[c].roomId].peers[c].producers # {}
    /\ \E t \in rooms[sockets[c].roomId].peers[c].transports :
         transports[t].direction = "recv" /\ ~transports[t].closed
    /\ \E i \in 1..Len(outbox[c]) : outbox[c][i] = Err("Receive transport not found")
    /\ consumers = << >>

\* C5: a peerJoined naming peer p is delivered to another connection only
\* after p's own connection has processed its joined response.
C5_JoinedBeforePeerJoined ==
  [][\A q \in Conns :
       (Deliver(q) /\ Head(outbox[q]).type = "peerJoined") =>
          LET p == Head(outbox[q]).peer
          IN /\ client[p].peerId = p
             /\ \A i \in 1..Len(outbox[p]) : outbox[p][i].type # "joined"]_vars

\* C6: when the requesting connection has disconnected while createTransport
\* or produce was awaiting the media engine, the completion is discarded: the
\* new transport or producer is closed, no session changes and no message is
\* emitted.
C6_CompletionAfterDisconnectDiscarded ==
  [][/\ \A t \in pendingTransport :
          (createTransportDone(t) /\ sockets[t.conn].status = "closed") =>
             /\ transports'[Len(transports')].closed
             /\ rooms' = rooms
             /\ outbox' = outbox
     /\ \A x \in pendingProduce :
          (produceDone(x) /\ sockets[x.conn].status = "closed") =>
             /\ producers'[Len(producers')].closed
             /\ rooms' = rooms
             /\ outbox' = outbox]_vars

PeerLeft(p) == Msg("peerLeft", p, None, {})

\* C7: when a joined connection disconnects, its peer is a member of no room
\* afterwards, the transports, producers and consumers stored in its session
\* are closed, and every connected peer that shared a room with it gets
\* exactly one peerLeft naming it.
C7_DisconnectRemovesAndNotifies ==
  [][\A c \in Conns :
       (handleDisconnect(c) /\ sockets[c].roomId # None) =>
          /\ \A r \in DOMAIN rooms' : c \notin DOMAIN rooms'[r].peers
          /\ \A r \in DOMAIN rooms :
               c \in DOMAIN rooms[r].peers =>
                 /\ \A t \in rooms[r].peers[c].transports : transports'[t].closed
                 /\ \A x \in rooms[r].peers[c].producers : producers'[x].closed
                 /\ \A k \in rooms[r].peers[c].consumers : consumers'[k].closed
                 /\ \A q \in (DOMAIN rooms[r].peers) \ {c} :
                      sockets[q].status = "open" =>
                        outbox'[q] = Append(outbox[q], PeerLeft(c))]_vars

\* C8: once a room is torn down, no recording of it has status "recording"
\* and no transcoding process for it keeps running.
C8_TeardownCancelsRecording ==
  \A id \in DOMAIN recordings :
    (recordings[id].status = "recording" \/ ffmpeg[id] = "running")
      => recordings[id].roomId \in DOMAIN rooms

\* No join is in flight and every connected client has processed all that
\* was emitted to it.
Quiescent ==
  /\ pendingJoin = {}
  /\ \A c \in Conns : sockets[c].status = "open" => outbox[c] = << >>

ConnectedOthers(c) ==
  {q \in (DOMAIN rooms[sockets[c].roomId].peers) \ {c} : sockets[q].status = "open"}

\* C9: when everything emitted has been delivered, each connected client's
\* participant list holds exactly the other connected peers of its room,
\* each once.
C9_MembershipConverges ==
  Quiescent =>
    \A c \in Conns :
      (sockets[c].status = "open" /\ getPeer(sockets[c].roomId, c)) =>
         LET ps == client[c].participants
         IN /\ {ps[i] : i \in 1..Len(ps)} = ConnectedOthers(c)
            /\ Len(ps) = Cardinality(ConnectedOthers(c))

\* Connection c's peer holds an open transport it created with direction
\* recv, and producer prod is stored for another peer of c's room.
CanConsumePre(c, prod) ==
  /\ getPeer(sockets[c].roomId, c)
  /\ \E t \in rooms[sockets[c].roomId].peers[c].transports :
       transports[t].direction = "recv" /\ ~transports[t].closed
  /\ \E q \in (DOMAIN rooms[sockets[c].roomId].peers) \ {c} :
       prod \in rooms[sockets[c].roomId].peers[q].producers

\* C10: a consume by a joined peer that has created a recv transport, for a
\* producer of another peer of its room that passes the capability check,
\* succeeds: a paused consumer is stored in its consumer map and it gets
\* consumed instead of an error.
C10_ConsumeSucceeds ==
  [][\A c \in Conns, prod \in ProducerIds :
       (CanConsumePre(c, prod) /\ handleConsume(c, c, prod, TRUE)) =>
          /\ Len(consumers') = Len(consumers) + 1
          /\ consumers'[Len(consumers')].paused
          /\ consumers'[Len(consumers')].producer = prod
          /\ Len(consumers') \in rooms'[sockets[c].roomId].peers[c].consumers
          /\ outbox'[c] = Append(outbox[c], Msg("consumed", None, Len(consumers'), {}))]_vars

\* The step appends one error to connection c's messages and nothing to
\* anybody else's.
OnlyErrorTo(c) ==
  /\ LastIsError(c)
  /\ \A q \in Conns \ {c} : outbox'[q] = outbox[q]

\* C11: stopRecording of an unknown id, or of a recording whose stored status
\* is not "recording", is answered with an error and leaves the stored
\* status, the end time, the room's recording flag and the running
\* transcoders as they were.
C11_StopInactiveRejected ==
  [][\A c \in Conns, id \in RecordingIds :
       ((id \notin DOMAIN recordings \/ recordings[id].status # "recording")
          /\ handleStopRecording(c, id)) =>
            /\ recordings' = recordings
            /\ rooms' = rooms
            /\ activeRecorders' = activeRecorders
            /\ ffmpeg' = ffmpeg
            /\ OnlyErrorTo(c)]_vars

\* C11's case: a recording that is completed while its room records again has
\* had a stop request answered with "Recording is not active".
C11_Witness ==
  \E c \in Conns, id \in DOMAIN recordings :
    /\ recordings[id].status = "completed"
    /\ recordings[id].roomId \in DOMAIN rooms
    /\ rooms[recordings[id].roomId].isRecording
    /\ \E i \in 1..Len(outbox[c]) : outbox[c][i] = Err("Recording is not active")

\* C12: a successful stopRecording leaves the stored status "stopped"; when
\* the transcoding process of a stopped recording then signals that it
\* finished the status becomes "completed", and "failed" when it reports an
\* error.
C12_StoppedThenCompletedOrFailed ==
  [][/\ \A c \in Conns, id \in RecordingIds :
          (id \in DOMAIN recordings /\ recordings[id].status = "recording"
             /\ handleStopRecording(c, id)) =>
               recordings'[id].status = "stopped"
     /\ \A id \in RecordingIds :
          (id \in DOMAIN recordings /\ recordings[id].status = "stopped") =>
             /\ ffmpegEnd(id) => recordings'[id].status = "completed"
             /\ ffmpegError(id) => recordings'[id].status = "failed"]_vars

\* C13: when createPlainTransport or the transcoder's start fails after
\* startRecording passed its checks, a session with status "failed" is
\* stored for the room, and the room's recording flag is not set by it.
C13_StartFailureStored ==
  [][\A x \in pendingRecording :
       (plainTransportFail(x) \/ ffmpegStartError(x)) =>
          /\ Len(recordings') = Len(recordings) + 1
          /\ recordings'[Len(recordings')].status = "failed"
          /\ recordings'[Len(recordings')].roomId = x.room
          /\ rooms' = rooms]_vars

TransportsOf(r, p, d) ==
  {t \in rooms[r].peers[p].transports : transports[t].direction = d}

\* C14: in every state a peer's session holds at most one transport created
\* with direction send and at most one with direction recv.
C14_OneTransportPerDirection ==
  \A r \in DOMAIN rooms : \A p \in DOMAIN rooms[r].peers : \A d \in Directions :
    Cardinality(TransportsOf(r, p, d)) <= 1

ActiveProducersOf(r, p, k) ==
  {x \in rooms[r].peers[p].producers : producers[x].kind = k /\ ~producers[x].closed}

\* C15: in every state a peer's session holds at most one active producer of
\* each kind.
C15_OneProducerPerKind ==
  \A r \in DOMAIN rooms : \A p \in DOMAIN rooms[r].peers : \A k \in Kinds :
    Cardinality(ActiveProducersOf(r, p, k)) <= 1

\* The connection is open and has not joined a room.
Anonymous(c) == sockets[c].status = "open" /\ sockets[c].roomId = None

\* The step changes no room, router, peer session, media object or recording.
ServerUnchanged ==
  /\ rooms' = rooms
  /\ routers' = routers
  /\ transports' = transports
  /\ producers' = producers
  /\ consumers' = consumers
  /\ recordings' = recordings
  /\ activeRecorders' = activeRecorders
  /\ ffmpeg' = ffmpeg

\* C16: startRecording, stopRecording, getRoomStats and getRecordings sent by
\* a connection that has not joined are rejected: the requester gets an
\* error, nobody else gets a message, and no room, session or recording
\* changes.
C16_AnonymousRejected ==
  [][\A c \in Conns :
       Anonymous(c) =>
         /\ handleStartRecording(c) =>
              ServerUnchanged /\ pendingRecording' = pendingRecording /\ OnlyErrorTo(c)
         /\ \A id \in RecordingIds :
              handleStopRecording(c, id) => ServerUnchanged /\ OnlyErrorTo(c)
         /\ handleGetRoomStats(c) => ServerUnchanged /\ OnlyErrorTo(c)
         /\ handleGetRecordings(c) => ServerUnchanged /\ OnlyErrorTo(c)]_vars

\* Every peer session other than that of connection c is as it was.
OtherSessionsUnchanged(c) ==
  \A r \in DOMAIN rooms : \A q \in (DOMAIN rooms[r].peers) \ {c} :
    /\ r \in DOMAIN rooms'
    /\ q \in DOMAIN rooms'[r].peers
    /\ rooms'[r].peers[q] = rooms[r].peers[q]

\* Every newProducer appended in the step names peer p.
NewProducerNames(p) ==
  \A q \in Conns :
    (Len(outbox'[q]) > Len(outbox[q])
       /\ outbox'[q][Len(outbox'[q])].type = "newProducer")
      => outbox'[q][Len(outbox'[q])].peer = p

\* C17: whatever peerId the payload carries, createTransport, produce and
\* consume sent by a connection change no other peer's session, produce on
\* no other peer's transport, and announce a producer under no other peer's
\* id.
C17_ActsOnOwnSessionOnly ==
  [][/\ \A t \in pendingTransport :
          createTransportDone(t) => OtherSessionsUnchanged(t.conn)
     /\ \A x \in pendingProduce :
          produceDone(x) =>
            /\ OtherSessionsUnchanged(x.conn)
            /\ NewProducerNames(x.conn)
            /\ getPeer(x.room, x.conn) =>
                 x.transport \in rooms[x.room].peers[x.conn].transports
     /\ \A c \in Conns, p \in PeerArgs, prod \in ProducerIds, can \in BOOLEAN :
          handleConsume(c, p, prod, can) => OtherSessionsUnchanged(c)]_vars

\* The step is a failure reported to connection c alone: one error for c,
\* nothing for anybody else, and no change on the server.
FailureScopedTo(c) ==
  /\ ServerUnchanged
  /\ sockets' = sockets
  /\ OnlyErrorTo(c)

C19_RouterFailureRegistersNothing ==
  [][\A j \in pendingJoin :
       createRoomFail(j) =>
         /\ rooms' = rooms
         /\ routers' = routers
         /\ sockets' = sockets
         /\ joins' = joins
         /\ \A r \in 1..MaxRooms : getPeer(r, j.conn)' = getPeer(r, j.conn)
         /\ getRoomByName(j.name)' = getRoomByName(j.name)]_vars

\* A join was refused because createRouter failed, no room is registered
\* and the joiner is in no room.
C19_Witness ==
  \E c \in Conns :
    /\ sockets[c].status = "open"
    /\ sockets[c].roomId = None
    /\ \E i \in DOMAIN outbox[c] : outbox[c][i] = Err("createRouter failed")
    /\ DOMAIN rooms = {}
    /\ routers = {}

\* C20: a join that would admit a peer id already present in the room is
\* answered with an error, leaves the room's peer set and the peer's
\* existing session (transports, producers, consumers) as they were, and
\* sends peerJoined to nobody.
C20_DuplicateAdmitRejected ==
  [][\A c \in Conns, n \in MediaRoomNames :
       (/\ getRoomByName(n) # None
        /\ getPeer(getRoomByName(n), c)
        /\ handleJoinExisting(c, n))
         => /\ rooms' = rooms
            /\ sockets' = sockets
            /\ joins' = joins
            /\ OnlyErrorTo(c)]_vars

\* A peer that holds a transport was refused a second admission to its room
\* while another peer is in the room.
C20_Witness ==
  \E c \in Conns, r \in DOMAIN rooms :
    /\ getPeer(r, c)
    /\ rooms[r].peers[c].transports # {}
    /\ DOMAIN rooms[r].peers # {c}
    /\ \E i \in DOMAIN outbox[c] : outbox[c][i] = Err("Peer already in room")

RoomsOf(c) == {r \in DOMAIN rooms : c \in DOMAIN rooms[r].peers}

\* C21: a join from a connection that is already joined changes nothing, so
\* in every state the peer id of a connection is a member of at most one
\* room, and that room is the one recorded on the connection.
C21_DuplicateJoinRejected ==
  /\ [][\A c \in Conns, n \in RoomNames :
          (/\ sockets[c].status = "open"
           /\ sockets[c].roomId # None
           /\ handleJoinExisting(c, n) \/ handleJoinCreate(c, n))
            => /\ rooms' = rooms
               /\ pendingJoin' = pendingJoin
               /\ sockets' = sockets
               /\ OnlyErrorTo(c)]_vars
  /\ [](\A c \in Conns :
          /\ Cardinality(RoomsOf(c)) <= 1
          /\ \A r \in RoomsOf(c) : sockets[c].roomId = r)

\* C22: in every state no connection has been sent a peerJoined that names
\* its own peer id; the delta of a join goes to the other sockets of the
\* room only.
C22_NoPeerJoinedToJoiner ==
  \A c \in Conns : \A i \in DOMAIN outbox[c] :
    outbox[c][i].type = "peerJoined" => outbox[c][i].peer # c

\* A connection has just been admitted to a room that had a member: it holds
\* its joined acknowledgement and the member holds the delta naming it.
C22_Witness ==
  \E c \in Conns, q \in Conns :
    /\ q # c
    /\ \E i \in DOMAIN outbox[c] :
         outbox[c][i].type = "joined" /\ outbox[c][i].peer = c
    /\ \E i \in DOMAIN outbox[q] :
         outbox[q][i] = Msg("peerJoined", c, None, {})

\* The last message sent to c in the step is the existing-peer list ps.
ExistingPeersSent(c, ps) ==
  /\ Len(outbox'[c]) > Len(outbox[c])
  /\ outbox'[c][Len(outbox'[c])].type = "existingPeers"
  /\ outbox'[c][Len(outbox'[c])].peers = ps

\* C23: the existing-peer list sent to a joiner is the set of peers that were
\* in the room when it was admitted, without the joiner itself; it is empty
\* for the peer whose join created the room.
C23_ExistingPeersAreTheOthers ==
  [][/\ \A c \in Conns, n \in RoomNames :
          (/\ getRoomByName(n) # None
           /\ ~getPeer(getRoomByName(n), c)
           /\ handleJoinExisting(c, n))
            => /\ ExistingPeersSent(c, DOMAIN rooms[getRoomByName(n)].peers)
               /\ c \notin outbox'[c][Len(outbox'[c])].peers
               /\ outbox'[c][Len(outbox'[c])].peers =
                    (DOMAIN rooms'[getRoomByName(n)].peers) \ {c}
     /\ \A j \in pendingJoin :
          (sockets[j.conn].status = "open" /\ createRoomDone(j))
            => ExistingPeersSent(j.conn, {})]_vars

\* A joiner holds a non-empty existing-peer list.
C23_Witness ==
  \E c \in Conns : \E i \in DOMAIN outbox[c] :
    /\ outbox[c][i].type = "existingPeers"
    /\ outbox[c][i].peers # {}

\* Consumer k is in the consumer map of connection c's own session.
OwnConsumer(c, k) ==
  /\ getPeer(sockets[c].roomId, c)
  /\ k \in rooms[sockets[c].roomId].peers[c].consumers

\* C24: a consumer is paused when it is created and leaves the paused state
\* only in a resumeConsumer step of the peer whose map holds it; a
\* resumeConsumer for an id that is not in the requester's own map is
\* answered with an error and changes no consumer; no resumeConsumer sends
\* anything to another connection.
C24_ResumeOnlyByOwner ==
  [][/\ \A k \in ConsumerIds :
          (k \notin DOMAIN consumers /\ k \in DOMAIN consumers') => consumers'[k].paused
     /\ \A k \in DOMAIN consumers :
          (consumers[k].paused /\ ~consumers'[k].paused)
            => \E c \in Conns : OwnConsumer(c, k) /\ handleResumeConsumer(c, k)
     /\ \A c \in Conns, k \in ConsumerIds :
          handleResumeConsumer(c, k)
            => /\ \A q \in Conns \ {c} : outbox'[q] = outbox[q]
               /\ ~OwnConsumer(c, k) => (consumers' = consumers /\ rooms' = rooms
                                          /\ LastIsError(c))]_vars

\* A joined peer's resumeConsumer was refused: the id is not in its map.
C24_Witness ==
  \E c \in Conns :
    /\ getPeer(sockets[c].roomId, c)
    /\ \E i \in DOMAIN outbox[c] : outbox[c][i] = Err("Consumer not found")

\* Number of entries of participant list s that carry peer id p.
Count(s, p) == Cardinality({i \in 1..Len(s) : s[i] = p})

\* The client of connection c has processed its joined acknowledgement.
ClientJoined(c) == sockets[c].status = "open" /\ client[c].peerId = c

\* C25: from every state of a joined client, applying the same peer-joined
\* input for another peer twice (two deltas, snapshot then delta, delta then
\* snapshot) gives a participant list that holds that peer exactly once.
C25_PeerJoinedIdempotent ==
  \A c \in Conns, p \in Conns :
    (ClientJoined(c) /\ p # c) =>
      /\ Count(onPeerJoined(c, onPeerJoined(c, client[c], p), p).participants, p) = 1
      /\ Count(onPeerJoined(c, handleExistingPeers(c, client[c], {p}), p).participants, p) = 1
      /\ Count(handleExistingPeers(c, onPeerJoined(c, client[c], p), {p}).participants, p) = 1

\* C26: once the client has processed its joined acknowledgement, no input
\* (snapshot, participant list, delta, also one naming the local peer id)
\* puts the local peer id into the participant list.
C26_LocalPeerNeverListed ==
  [][\A c \in Conns :
       (ClientJoined(c) /\ ~Has(client[c].participants, c))
         => ~Has(client'[c].participants, c)]_vars

\* The streams the client of c holds whose track comes from peer p.
StreamsFrom(cl, p) == {s \in cl.remoteStreams : s.from = p}

\* C27: a stream that arrives for a peer not yet in the participant list is
\* kept under that peer's id and adds no participant, and from the moment
\* the peer is in the participant list every kept stream of that peer
\* carries the participant's name.
C27_EarlyStreamKeptAndReattached ==
  /\ [][\A c \in Conns, p \in Conns, kind \in Kinds :
          (~Has(client[c].participants, p) /\ receiveConsumed(c, p, kind))
            => /\ client'[c].participants = client[c].participants
               /\ \E s \in client'[c].remoteStreams :
                    s.from = p /\ s.kind = kind /\ s.peerId = p]_vars
  /\ [](\A c \in Conns, p \in Conns :
          Has(client[c].participants, p)
            => \A s \in StreamsFrom(client[c], p) : s.peerId = p /\ s.named)

\* C28: when the client processes peerLeft for peer p, the participant entry
\* of p and every stream that came from p are gone afterwards, and the
\* entries and streams of every other peer are as before.
C28_PeerLeftRemovesEntryAndStreams ==
  [][\A c \in Conns, p \in Conns :
       clientReceives(c, Msg("peerLeft", p, None, {}))
         => /\ ~Has(client'[c].participants, p)
            /\ StreamsFrom(client'[c], p) = {}
            /\ SelectSeq(client'[c].participants, LAMBDA q : q # p)
                 = SelectSeq(client[c].participants, LAMBDA q : q # p)
            /\ \A q \in Conns \ {p} :
                 StreamsFrom(client'[c], q) = StreamsFrom(client[c], q)]_vars

\* The active producers held by the other connected peers of connection c's
\* room.
ProducersOfOthers(c) ==
  LET r == sockets[c].roomId
  IN {prod \in DOMAIN producers :
        /\ ~producers[prod].closed
        /\ \E q \in (DOMAIN rooms[r].peers) \ {c} :
             /\ sockets[q].status = "open"
             /\ sockets[q].roomId = r
             /\ prod \in rooms[r].peers[q].producers}

\* C29: when nothing is in flight any more, every connected peer of a room
\* has been told of every active producer of every other peer of that room,
\* also of those created before it joined.
C29_ProducersAnnouncedToAll ==
  (Quiescent /\ pendingProduce = {}) =>
    \A c \in Conns :
      (sockets[c].status = "open" /\ getPeer(sockets[c].roomId, c))
        => ProducersOfOthers(c) \subseteq client[c].consumeRequested

ConnectedPeers(r) ==
  IF r \in DOMAIN rooms
  THEN {q \in DOMAIN rooms[r].peers : sockets[q].status = "open"}
  ELSE {}

\* The step sends message m to connection q, as the last of its messages.
Sent(q, m) ==
  /\ Len(outbox'[q]) = Len(outbox[q]) + 1
  /\ outbox'[q][Len(outbox'[q])] = m

\* C31: a successful startRecording sends recordingStarted with the id of
\* the stored recording to every connected peer of the room, the requester
\* included, and a successful stopRecording sends recordingStopped with that
\* id to every connected peer of the recording's room, with the end time
\* set.
C31_RecordingNoticesReachAllPeers ==
  [][/\ \A x \in pendingRecording :
          ffmpegStart(x) =>
            /\ Len(recordings') = Len(recordings) + 1
            /\ \A q \in ConnectedPeers(x.room) :
                 Sent(q, Msg("recordingStarted", None, Len(recordings'), {}))
     /\ \A c \in Conns, id \in RecordingIds :
          (/\ id \in DOMAIN recordings
           /\ recordings[id].status = "recording"
           /\ handleStopRecording(c, id)) =>
            /\ recordings'[id].ended
            /\ \A q \in ConnectedPeers(recordings[id].roomId) :
                 Sent(q, Msg("recordingStopped", None, id, {}))]_vars

\* Two connected peers of one room both hold the recordingStarted notice of
\* the same recording.
C31_Witness ==
  \E c \in Conns, q \in Conns, id \in DOMAIN recordings :
    /\ q # c
    /\ {c, q} \subseteq ConnectedPeers(recordings[id].roomId)
    /\ \E i \in DOMAIN outbox[c] : outbox[c][i] = Msg("recordingStarted", None, id, {})
    /\ \E i \in DOMAIN outbox[q] : outbox[q][i] = Msg("recordingStarted", None, id, {})

\* C32: when a produce request of a joined, connected peer P succeeds, P is
\* sent produced with the new producer id and nothing else, and every other
\* connected peer of the room is sent exactly one newProducer that names P
\* and that producer.
C32_ProducedAndAnnounced ==
  [][\A x \in pendingProduce :
       (/\ sockets[x.conn].status = "open"
        /\ getPeer(x.room, x.conn)
        /\ produceDone(x)) =>
         /\ Sent(x.conn, Msg("produced", None, Len(producers'), {}))
         /\ \A q \in ConnectedPeers(x.room) \ {x.conn} :
              Sent(q, Msg("newProducer", x.conn, Len(producers'), {}))]_vars

\* The edges of a recording's status.
StatusEdges ==
  {<<"recording", "stopped">>, <<"stopped", "completed">>,
   <<"recording", "failed">>, <<"stopped", "failed">>}

\* C33: the stored status of a recording changes only along the edges
\* recording -> stopped, stopped -> completed, recording -> failed and
\* stopped -> failed, so completed and failed never change and no recording
\* returns to recording.
C33_StatusFollowsEdges ==
  [][\A id \in DOMAIN recordings :
       /\ id \in DOMAIN recordings'
       /\ recordings'[id].status # recordings[id].status
            => <<recordings[id].status, recordings'[id].status>> \in StatusEdges]_vars

\* A recording has gone through recording, stopped and completed.
C33_Witness ==
  \E id \in DOMAIN recordings :
    /\ recordings[id].status = "completed"
    /\ recordings[id].ended
    /\ ffmpeg[id] = "exited"

\* A recordingStarted notice is appended to connection q's outbox in this step.
StartedSentTo(q) ==
  /\ Len(outbox'[q]) > Len(outbox[q])
  /\ outbox'[q][Len(outbox'[q])].type = "recordingStarted"

\* The step makes a recording visible: a session is stored, a room's flag
\* becomes true or recordingStarted is sent.
MakesVisible ==
  \/ Len(recordings') > Len(recordings)
  \/ \E r \in DOMAIN rooms :
       r \in DOMAIN rooms' /\ ~rooms[r].isRecording /\ rooms'[r].isRecording
  \/ \E q \in Conns : StartedSentTo(q)

\* C34: a recording becomes visible as recording (stored session, room flag
\* true, recordingStarted broadcast) only in the step in which the transcoder
\* of a pending request confirms that it started; while a request waits for
\* that confirmation its room's recording flag is false.
C34_VisibleOnlyAfterStart ==
  /\ [][MakesVisible =>
          \E x \in pendingRecording :
            /\ x.stage = "ffmpeg"
            /\ x \notin pendingRecording'
            /\ Len(recordings') = Len(recordings) + 1
            /\ recordings'[Len(recordings')].roomId = x.room]_vars
  /\ [](\A x \in pendingRecording : ~isRoomRecording(x.room))

\* C35: every peer id in a room's peer set belongs to a connection that is
\* still connected, also when the connection disconnected while its join was
\* awaiting the creation of the room; no room stays registered whose members
\* are all disconnected.
C35_MembersAreConnected ==
  \A r \in DOMAIN rooms :
    \A p \in DOMAIN rooms[r].peers : sockets[p].status = "open"

\* The stored sessions of room r that have status recording.
RecordingSessionsOf(r) ==
  {id \in DOMAIN recordings :
     recordings[id].roomId = r /\ recordings[id].status = "recording"}

\* C36: a room's recording flag is true exactly when a stored session of the
\* room has status recording, and then the room's recordingId is the id of
\* that session.
C36_FlagMatchesSessions ==
  \A r \in DOMAIN rooms :
    /\ rooms[r].isRecording <=> RecordingSessionsOf(r) # {}
    /\ rooms[r].isRecording => RecordingSessionsOf(r) = {rooms[r].recordingId}

\* C37: for every peer P and every other connection Q, no newProducer naming
\* P is emitted to Q after peerLeft{P} has been emitted to Q (seen in the
\* notices still on their way to Q).
C37_NoProducerAfterPeerLeft ==
  \A p, q \in Conns :
    q # p =>
      \A i, j \in DOMAIN outbox[q] :
        (i < j /\ outbox[q][i].type = "peerLeft" /\ outbox[q][i].peer = p)
          => ~(outbox[q][j].type = "newProducer" /\ outbox[q][j].peer = p)

\* Connection c is admitted to room r in this step.
Admitted(c, r) ==
  /\ sockets[c].status = "open"
  /\ ~getPeer(r, c)
  /\ r \in DOMAIN rooms'
  /\ c \in DOMAIN rooms'[r].peers

\* C38: of two connected peers of one room each is told of the other, in
\* whatever order their join handlers run: when a connection is admitted to a
\* room, its existing-peer snapshot names every connected peer that is already
\* a member, and each of those is sent the peerJoined delta naming the
\* newcomer.
C38_BothLearnOfEachOther ==
  [][\A c \in Conns, r \in 1..MaxRooms :
       Admitted(c, r) =>
         \A q \in ConnectedPeers(r) \ {c} :
           /\ outbox'[c][Len(outbox'[c])].type = "existingPeers"
           /\ q \in outbox'[c][Len(outbox'[c])].peers
           /\ Sent(q, Msg("peerJoined", c, None, {}))]_vars

\* Two connected peers of one room: one holds the snapshot naming the other,
\* the other holds the delta naming the first.
C38_Witness ==
  \E a, b \in Conns : \E r \in DOMAIN rooms :
    /\ a # b
    /\ {a, b} \subseteq ConnectedPeers(r)
    /\ \E i \in DOMAIN outbox[a] :
         outbox[a][i].type = "existingPeers" /\ b \in outbox[a][i].peers
    /\ \E i \in DOMAIN outbox[b] : outbox[b][i] = Msg("peerJoined", a, None, {})

\* The transport of direction d that client record cl holds.
TransportOf(cl, d) == IF d = "send" THEN cl.sendTransport ELSE cl.recvTransport

\* C39: each transportCreated answer is consumed by the createTransport
\* request that caused it: the answer to a request of one direction gives its
\* id to the transport of that direction and leaves the other direction's
\* transport as it was, so a client's send and receive transports never have
\* the same transport id.
C39_AnswerGoesToItsRequest ==
  /\ [][\A c \in Conns, i \in 1..MaxCreates :
          (/\ i \in DOMAIN client[c].createRequests
           /\ receiveTransportCreated(c, i)) =>
            LET d == client[c].createRequests[i]
                o == CHOOSE x \in Directions : x # d
            IN /\ TransportOf(client'[c], d) = NextTransportId(c)
               /\ TransportOf(client'[c], o) = TransportOf(client[c], o)]_vars
  /\ [](\A c \in Conns :
          client[c].sendTransport # None =>
            client[c].sendTransport # client[c].recvTransport)

\* The resources stored in the sessions of room r's peers.
StoredIn(r, field) == UNION {rooms[r].peers[p][field] : p \in DOMAIN rooms[r].peers}

\* C40: closeRoom on a registered room (it has at least one peer) ends, closes
\* the stored resources of every peer, leaves the room object without peers,
\* closes and unregisters the room's router exactly once, unregisters the
\* room, touches no other room and returns true; on an unknown room id it
\* returns false and changes nothing.
C40_CloseRoomClosesEverything ==
  \A r \in 1..MaxRooms :
    LET res == closeRoom(Store, r)
    IN IF r \in DOMAIN rooms
       THEN /\ DOMAIN rooms[r].peers # {}
            /\ res.returned
            /\ \A t \in StoredIn(r, "transports") : res.transports[t].closed
            /\ \A t \in StoredIn(r, "producers") : res.producers[t].closed
            /\ \A t \in StoredIn(r, "consumers") : res.consumers[t].closed
            /\ DOMAIN res.objects[r].peers = {}
            /\ r \in routers
            /\ r \notin res.routers
            /\ res.routerCloses = 1
            /\ res.registered = (DOMAIN rooms) \ {r}
            /\ \A o \in res.registered : res.objects[o] = rooms[o]
            /\ res.routers = routers \ {r}
       ELSE res = Store

\* A registered room with two peers, one of which has stored a transport and
\* a producer, that closeRoom closes.
C40_Witness ==
  \E r \in DOMAIN rooms :
    /\ Cardinality(DOMAIN rooms[r].peers) = 2
    /\ StoredIn(r, "transports") # {}
    /\ StoredIn(r, "producers") # {}
    /\ \E t \in StoredIn(r, "transports") : ~transports[t].closed
    /\ closeRoom(Store, r).returned
    /\ closeRoom(Store, r).routerCloses = 1

====
